---- MODULE Spec2Model ----
(***************************************************************************)
(* Model of src/sidecar/main.py: the Meta Deep Search sidecar.             *)
(*                                                                         *)
(* One invocation of the process is main(): read standard input, strip it, *)
(* decompose the query into three branches, open the database, look the    *)
(* query up once per branch, synthesize and print.  The process is         *)
(* sequential; pc is its position.  The database and its parent directory  *)
(* live on disk and outlive an invocation; everything else is rebuilt at   *)
(* process start.                                                          *)
(*                                                                         *)
(* Text is a sequence of atoms.  Every character of the input and of a     *)
(* stored record is one atom; every string literal of the source is one    *)
(* atom, except that a newline inside a literal is always its own atom     *)
(* NL, so that lines can be counted.  Concatenation of text is \o.         *)
(***************************************************************************)
EXTENDS Integers, Sequences, FiniteSets, TLC

\* ---------------------------------------------------------------- bounds
\* longest standard input, in characters
MaxLen == 2
\* most Knowledge records the database holds
MaxRecords == 6

\* ------------------------------------------------------------- constants
\* "LIMIT 5" of the query text
LIMIT == 5

NL == "\n"
\* characters the input is drawn from: a letter and two kinds of whitespace
Alphabet == {"a", " ", NL}
\* what str.strip() removes (the members of it that Alphabet has)
Whitespace == {" ", NL}

Inputs == UNION {[1..n -> Alphabet] : n \in 0..MaxLen}

DB_PATH == <<"~/.axiomhive/", "axiom.kuzu">>

VARIABLES
    pc,         \* position of the process in main()
    input,      \* what standard input holds (input_txt)
    query,      \* the argument of meta_deep_search
    branches,   \* the list built at lines 25-29
    dirExists,  \* disk: os.path.dirname(DB_PATH) exists
    db,         \* disk: the database holds Knowledge records 1..db
    calls,      \* the calls made on the disk and the storage, in order
    fetched,    \* what each fetchall() returned, in order
    answers,    \* the list answers
    out,        \* the value meta_deep_search returned
    stdout,     \* the values handed to print, in order
    exitCode,   \* exit status of the process, -1 while it runs
    raised,     \* the exception the storage raised in this invocation
    madeDir,    \* this invocation created the directory
    prev        \* <<summary>> of the invocation this one repeats, else <<>>

vars == <<pc, input, query, branches, dirExists, db, calls, fetched, answers,
          out, stdout, exitCode, raised, madeDir, prev>>

\* ------------------------------------------------------------ text tools
Min(a, b) == IF a <= b THEN a ELSE b

RECURSIVE LStrip(_)
LStrip(s) ==
    IF s # <<>> /\ Head(s) \in Whitespace THEN LStrip(Tail(s)) ELSE s

RECURSIVE RStrip(_)
RStrip(s) ==
    IF s # <<>> /\ s[Len(s)] \in Whitespace
    THEN RStrip(SubSeq(s, 1, Len(s) - 1))
    ELSE s

\* str.strip(): leading and trailing whitespace removed
Strip(s) == RStrip(LStrip(s))

RECURSIVE JoinRec(_, _)
JoinRec(sep, xs) ==
    IF xs = <<>> THEN <<>>
    ELSE IF Len(xs) = 1 THEN xs[1]
    ELSE xs[1] \o sep \o JoinRec(sep, Tail(xs))

\* variant: the parts run together, the separator forgotten
JoinNoSeparator(sep, xs) == JoinRec(<<>>, xs)

\* sep.join(xs)
Join(sep, xs) == JoinRec(sep, xs)

\* ------------------------------------------------------------ the program
Labels == <<"Historical", "Theoretical", "Practical">>

\* variant: the templates alone, the query left out
BranchesWithoutQuery(q) ==
    << <<"Historical", <<"What is the historical context of: ">> >>,
       <<"Theoretical", <<"What are the theoretical principles behind: ">> >>,
       <<"Practical", <<"What practical examples or proofs exist for: ">> >> >>

\* the list branches of meta_deep_search
Branches(q) ==
    << <<"Historical", <<"What is the historical context of: ">> \o q>>,
       <<"Theoretical", <<"What are the theoretical principles behind: ">> \o q>>,
       <<"Practical", <<"What practical examples or proofs exist for: ">> \o q>> >>

\* variant: each branch looks its own subquery up
LikeArgumentOfBranch(q, subquery) == <<"%">> \o subquery \o <<"%">>

\* the parameter of the statement, f"%{query}%"; subquery is the loop
\* variable in scope, which the expression does not use
LikeArgument(q, subquery) == <<"%">> \o q \o <<"%">>

Sentinel == <<"(no local evidence found)">>

\* [row[0] for row in rows]
FirstColumn(rows) == [k \in 1..Len(rows) |-> rows[k][1]]

\* variant: no rows give the empty text
ContextNoSentinel(rows) == Join(<<NL>>, FirstColumn(rows))

\* the conditional expression that builds context
Context(rows) ==
    IF rows # <<>> THEN Join(<<NL>>, FirstColumn(rows)) ELSE Sentinel

Header == <<"Tree-of-Thoughts Synthesis:", NL>>

\* f"[bold red]{lbl}[/]: {ctx}"
Entry(answer) == <<"[bold red]", answer[1], "[/]", ": ">> \o answer[3]

\* variant: the label without its markup
EntryPlain(answer) == <<answer[1], ": ">> \o answer[3]

\* variant: entries built by EntryPlain
SynthesisPlain(as) ==
    Header \o Join(<<NL>>, [k \in 1..Len(as) |-> EntryPlain(as[k])])

\* variant: no newline between the header and the first entry
SynthesisHeaderOnOneLine(as) ==
    <<"Tree-of-Thoughts Synthesis:">>
        \o Join(<<NL>>, [k \in 1..Len(as) |-> Entry(as[k])])

\* the value meta_deep_search returns
Synthesis(as) ==
    Header \o Join(<<NL>>, [k \in 1..Len(as) |-> Entry(as[k])])

\* ------------------------------------------------------------ the storage
\* text of Knowledge record i
RecText(i) ==
    CASE i = 1 -> <<"a">>
      [] i = 2 -> <<"b">>
      [] i = 3 -> <<"a", NL, "b">>
      [] i = 4 -> <<>>
      [] i = 5 -> <<"a", "a">>
      [] i = 6 -> <<"b", "a">>
      [] OTHER -> <<"a", "b">>

\* text LIKE pattern, with % matching any run of characters
RECURSIVE Like(_, _)
Like(text, pattern) ==
    IF pattern = <<>> THEN text = <<>>
    ELSE IF Head(pattern) = "%"
         THEN Like(text, Tail(pattern))
              \/ (text # <<>> /\ Like(Tail(text), pattern))
         ELSE /\ text # <<>>
              /\ Head(text) = Head(pattern)
              /\ Like(Tail(text), Tail(pattern))

\* the matching records of 1..d scanned upwards from record i, one row each
RECURSIVE Scan(_, _, _)
Scan(i, d, pattern) ==
    IF i > d THEN <<>>
    ELSE (IF Like(RecText(i), pattern) THEN << <<RecText(i)>> >> ELSE <<>>)
         \o Scan(i + 1, d, pattern)

Reverse(s) == [k \in 1..Len(s) |-> s[Len(s) + 1 - k]]

Take(n, s) == SubSeq(s, 1, Min(n, Len(s)))

\* what fetchall() may return after the statement ran: at most limit of the
\* matching records, in an order the engine chooses (no ORDER BY)
Results(d, pattern, limit) ==
    { Take(limit, Scan(1, d, pattern)),
      Take(limit, Reverse(Scan(1, d, pattern))) }

\* variant: a statement that stores a record (MERGE for MATCH)
AfterMerge(d) == Min(d + 1, MaxRecords)

\* the records on disk after the MATCH ... RETURN statement ran
AfterMatch(d) == d

\* --------------------------------------------------------------- actions
Fresh ==
    /\ pc' = "main"
    /\ query' = <<>>
    /\ branches' = <<>>
    /\ calls' = <<>>
    /\ fetched' = <<>>
    /\ answers' = <<>>
    /\ out' = <<>>
    /\ stdout' = <<>>
    /\ exitCode' = -1
    /\ raised' = "none"
    /\ madeDir' = FALSE

Init ==
    /\ pc = "main"
    /\ input \in Inputs
    /\ query = <<>>
    /\ branches = <<>>
    /\ dirExists \in BOOLEAN
    /\ db \in 0..MaxRecords
    /\ (db > 0 => dirExists)
    /\ calls = <<>>
    /\ fetched = <<>>
    /\ answers = <<>>
    /\ out = <<>>
    /\ stdout = <<>>
    /\ exitCode = -1
    /\ raised = "none"
    /\ madeDir = FALSE
    /\ prev = <<>>

\* an uncaught exception ends the process
Fail(exception) ==
    /\ pc' = "failed"
    /\ exitCode' = 1
    /\ raised' = exception

\* main, lines 43 and 45: read standard input and strip it
ReadStdin ==
    /\ pc = "main"
    /\ query' = Strip(input)
    /\ pc' = "decompose"
    /\ UNCHANGED <<input, branches, dirExists, db, calls, fetched, answers,
                   out, stdout, exitCode, raised, madeDir, prev>>

\* meta_deep_search, lines 25-29
Decompose ==
    /\ pc = "decompose"
    /\ branches' = Branches(query)
    /\ pc' = "connect"
    /\ UNCHANGED <<input, query, dirExists, db, calls, fetched, answers,
                   out, stdout, exitCode, raised, madeDir, prev>>

\* variant: a failure to open is caught and the search goes on
ConnectDbSwallowingErrors ==
    /\ pc = "connect"
    /\ \E opened \in BOOLEAN :
        /\ calls' = Append(calls, <<"connect", DB_PATH>>)
        /\ raised' = IF opened THEN raised ELSE "StorageUnavailable"
        /\ pc' = "loop"
        /\ answers' = <<>>
        /\ UNCHANGED <<input, query, branches, dirExists, db, fetched, out,
                       stdout, exitCode, madeDir, prev>>

\* connect_db and lines 30-32: make the directory when it is missing, open
\* the database, start with no answers
ConnectDb ==
    /\ pc = "connect"
    /\ \E made \in BOOLEAN, opened \in BOOLEAN :
        IF ~dirExists /\ ~made
        THEN /\ opened
             /\ calls' = Append(calls, <<"makedirs">>)
             /\ Fail("StorageUnavailable")
             /\ UNCHANGED <<input, query, branches, dirExists, db, fetched,
                            answers, out, stdout, madeDir, prev>>
        ELSE /\ (dirExists => made)
             /\ madeDir' = ~dirExists
             /\ dirExists' = TRUE
             /\ calls' = (IF dirExists THEN calls
                          ELSE Append(calls, <<"makedirs">>))
                         \o << <<"connect", DB_PATH>> >>
             /\ IF opened
                THEN /\ pc' = "loop"
                     /\ answers' = <<>>
                     /\ UNCHANGED <<exitCode, raised>>
                ELSE /\ Fail("StorageUnavailable")
                     /\ UNCHANGED answers
             /\ UNCHANGED <<input, query, branches, db, fetched, out, stdout,
                            prev>>

\* variant: a lookup that raises costs only its own branch
BranchLookupIsolated ==
    /\ pc = "loop"
    /\ Len(answers) < Len(branches)
    /\ LET label == branches[Len(answers) + 1][1]
           subquery == branches[Len(answers) + 1][2]
           pattern == LikeArgument(query, subquery)
       IN /\ calls' = Append(calls, <<"execute", pattern, LIMIT>>)
          /\ db' = AfterMatch(db)
          /\ \/ /\ raised' = "QueryExecutionFailure"
                /\ answers' = Append(answers, <<label, subquery, Sentinel>>)
                /\ UNCHANGED <<pc, exitCode, fetched>>
             \/ \E rows \in Results(db, pattern, LIMIT) :
                    /\ fetched' = Append(fetched, rows)
                    /\ answers' =
                           Append(answers, <<label, subquery, Context(rows)>>)
                    /\ UNCHANGED <<pc, exitCode, raised>>
    /\ UNCHANGED <<input, query, branches, dirExists, out, stdout, madeDir,
                   prev>>

\* one turn of the loop, lines 33-37: execute, fetchall, build the context,
\* append the answer
BranchLookup ==
    /\ pc = "loop"
    /\ Len(answers) < Len(branches)
    /\ LET label == branches[Len(answers) + 1][1]
           subquery == branches[Len(answers) + 1][2]
           pattern == LikeArgument(query, subquery)
       IN /\ calls' = Append(calls, <<"execute", pattern, LIMIT>>)
          /\ db' = AfterMatch(db)
          /\ \/ /\ Fail("QueryExecutionFailure")
                /\ UNCHANGED <<fetched, answers>>
             \/ \E rows \in Results(db, pattern, LIMIT) :
                    /\ fetched' = Append(fetched, rows)
                    /\ answers' =
                           Append(answers, <<label, subquery, Context(rows)>>)
                    /\ UNCHANGED <<pc, exitCode, raised>>
    /\ UNCHANGED <<input, query, branches, dirExists, out, stdout, madeDir,
                   prev>>

\* variant: the invocation that made the directory says so in its output
SynthesizeWithFirstRunBanner ==
    /\ pc = "loop"
    /\ Len(answers) = Len(branches)
    /\ out' = (IF madeDir THEN <<"(new database)", NL>> ELSE <<>>)
              \o Synthesis(answers)
    /\ pc' = "print"
    /\ UNCHANGED <<input, query, branches, dirExists, db, calls, fetched,
                   answers, stdout, exitCode, raised, madeDir, prev>>

\* lines 39-40, after the loop has run for every branch
Synthesize ==
    /\ pc = "loop"
    /\ Len(answers) = Len(branches)
    /\ out' = Synthesis(answers)
    /\ pc' = "print"
    /\ UNCHANGED <<input, query, branches, dirExists, db, calls, fetched,
                   answers, stdout, exitCode, raised, madeDir, prev>>

\* main, line 46, and the normal end of the process
WriteOutput ==
    /\ pc = "print"
    /\ stdout' = Append(stdout, out)
    /\ pc' = "done"
    /\ exitCode' = 0
    /\ UNCHANGED <<input, query, branches, dirExists, db, calls, fetched,
                   answers, out, raised, madeDir, prev>>

\* The program is started again on the same input, nothing else having
\* touched the disk; prev remembers what the finished invocation did.
Rerun ==
    /\ pc = "done"
    /\ prev' = << [input |-> input, db |-> db, fetched |-> fetched,
                   stdout |-> stdout] >>
    /\ Fresh
    /\ UNCHANGED <<input, dirExists, db>>

\* The program is started again on any input, after other processes may
\* have added or removed a record, or removed an empty database directory.
NextInvocation ==
    /\ pc \in {"done", "failed"}
    /\ prev' = <<>>
    /\ input' \in Inputs
    /\ db' \in {d \in 0..MaxRecords : d - db \in {-1, 0, 1}}
    /\ dirExists' \in IF db' > 0 THEN {TRUE} ELSE BOOLEAN
    /\ Fresh

Next ==
    \/ ReadStdin
    \/ Decompose
    \/ ConnectDb
    \/ BranchLookup
    \/ Synthesize
    \/ WriteOutput
    \/ Rerun
    \/ NextInvocation

Spec == Init /\ [][Next]_vars

\* ------------------------------------------------- vocabulary of claims
IsSubstring(q, s) ==
    \E k \in 0..Len(s) : k + Len(q) <= Len(s) /\ SubSeq(s, k + 1, k + Len(q)) = q

CountNL(s) == Cardinality({k \in 1..Len(s) : s[k] = NL})

RECURSIVE SumTo(_, _)
SumTo(f, n) == IF n = 0 THEN 0 ELSE f[n] + SumTo(f, n - 1)

\* lines of the text that follows the header
LinesAfterHeader(o) == CountNL(SubSeq(o, Len(Header) + 1, Len(o))) + 1

\* line breaks that a branch's rows bring into its evidence
BreaksOf(rows) ==
    IF rows = <<>> THEN 0
    ELSE (Len(rows) - 1)
         + SumTo([k \in 1..Len(rows) |-> CountNL(rows[k][1])], Len(rows))

\* where row k starts in the newline-joined text of rows
RECURSIVE StartOf(_, _)
StartOf(rows, k) ==
    IF k = 1 THEN 1
    ELSE StartOf(rows, k - 1) + Len(rows[k - 1][1]) + 1

\* text is exactly the rows' texts in order with one NL between neighbours
IsNewlineJoined(text, rows) ==
    /\ Len(text) = StartOf(rows, Len(rows)) + Len(rows[Len(rows)][1]) - 1
    /\ \A k \in 1..Len(rows) :
        /\ SubSeq(text, StartOf(rows, k),
                  StartOf(rows, k) + Len(rows[k][1]) - 1) = rows[k][1]
        /\ (k > 1 => text[StartOf(rows, k) - 1] = NL)

\* q is s without its leading and trailing whitespace
IsStripOf(q, s) ==
    \E i \in 1..(Len(s) + 1), j \in 0..Len(s) :
        /\ q = SubSeq(s, i, j)
        /\ \A k \in 1..Len(s) : (k < i \/ k > j) => s[k] \in Whitespace
        /\ (q = <<>> \/ (q[1] \notin Whitespace /\ q[Len(q)] \notin Whitespace))

CallsOf(op) == {k \in 1..Len(calls) : calls[k][1] = op}

Synthesized == pc \in {"print", "done"}

\* ---------------------------------------------------------------- claims
\* C1: once decomposition has run, branches is exactly the three pairs
\* (Historical, "What is the historical context of: " + q), (Theoretical,
\* "What are the theoretical principles behind: " + q), (Practical, "What
\* practical examples or proofs exist for: " + q) in this order, each
\* subquery contains q, and no failure happens before decomposition is over.
C1_Decomposition ==
    /\ pc \notin {"main", "decompose"} =>
        /\ branches =
             << <<"Historical",
                  <<"What is the historical context of: ">> \o query>>,
                <<"Theoretical",
                  <<"What are the theoretical principles behind: ">> \o query>>,
                <<"Practical",
                  <<"What practical examples or proofs exist for: ">> \o query>> >>
        /\ \A k \in 1..3 : IsSubstring(query, branches[k][2])
    /\ pc \in {"main", "decompose"} => exitCode = -1 /\ raised = "none"

\* the empty query, from an input of whitespace only, has been decomposed
C1_Witness ==
    /\ pc = "connect"
    /\ query = <<>>
    /\ input # <<>>
    /\ Len(branches) = 3

\* C2 as stated: the synthesized output starts with the header and a
\* newline and holds exactly 3 lines after it.
C2_Original ==
    Synthesized =>
        /\ SubSeq(out, 1, 2) = <<"Tree-of-Thoughts Synthesis:", NL>>
        /\ LinesAfterHeader(out) = 3

\* C2 amended: the synthesized output starts with the header and a newline;
\* the lines after it number 3 plus the line breaks the rows bring in (one
\* between two rows of a branch, one for each newline inside a row), so
\* exactly 3 when no branch has two rows or a row with a newline.
C2_HeaderAndLines ==
    Synthesized =>
        /\ SubSeq(out, 1, 2) = <<"Tree-of-Thoughts Synthesis:", NL>>
        /\ LinesAfterHeader(out) =
               3 + SumTo([k \in 1..3 |-> BreaksOf(fetched[k])], 3)

\* the first branch got two rows or more and the output runs over more
\* than three lines
C2_Witness ==
    /\ pc = "done"
    /\ Len(fetched[1]) >= 2
    /\ LinesAfterHeader(out) > 3

\* C3: a lookup that returned no rows gives its branch the evidence text
\* "(no local evidence found)", and the process fails only when the
\* storage raised.
C3_EmptyEvidence ==
    /\ \A k \in 1..Len(fetched) :
        fetched[k] = <<>> =>
            /\ Len(answers) >= k
            /\ answers[k][3] = <<"(no local evidence found)">>
    /\ (pc = "failed" \/ exitCode > 0) => raised # "none"

\* all three lookups came back empty and the process ended with status 0
C3_Witness ==
    /\ pc = "done"
    /\ exitCode = 0
    /\ fetched = << <<>>, <<>>, <<>> >>
    /\ Len(stdout) = 1

\* C4: a lookup that returned rows gives its branch the rows' texts in the
\* order returned, one newline between neighbours, nothing before or after.
C4_JoinedEvidence ==
    \A k \in 1..Len(fetched) :
        fetched[k] # <<>> =>
            /\ Len(answers) >= k
            /\ IsNewlineJoined(answers[k][3], fetched[k])

\* rows ["a","b"] gave "a\nb"
C4_Witness ==
    \E k \in 1..Len(fetched) :
        /\ fetched[k] = << <<"a">>, <<"b">> >>
        /\ answers[k][3] = <<"a", NL, "b">>

\* C5 as stated: after the header come the three entries "<label>:
\* <evidence_text>", joined by newline, in the order Historical,
\* Theoretical, Practical.
C5_Original ==
    Synthesized =>
        out = <<"Tree-of-Thoughts Synthesis:", NL>>
              \o <<"Historical", ": ">> \o answers[1][3] \o <<NL>>
              \o <<"Theoretical", ": ">> \o answers[2][3] \o <<NL>>
              \o <<"Practical", ": ">> \o answers[3][3]

\* C5 amended: after the header come the three entries "[bold red]<label>[/]:
\* <evidence_text>", joined by newline, in the order Historical,
\* Theoretical, Practical.
C5_MarkedUpEntries ==
    Synthesized =>
        out = <<"Tree-of-Thoughts Synthesis:", NL>>
              \o <<"[bold red]", "Historical", "[/]", ": ">>
              \o answers[1][3] \o <<NL>>
              \o <<"[bold red]", "Theoretical", "[/]", ": ">>
              \o answers[2][3] \o <<NL>>
              \o <<"[bold red]", "Practical", "[/]", ": ">>
              \o answers[3][3]

\* a synthesis whose branches hold a sentinel and real evidence
C5_Witness ==
    /\ pc = "done"
    /\ answers[1][3] # answers[2][3]
    /\ stdout = <<out>>

\* C6: when making the directory or opening the database raised, the
\* process has failed with a non-zero status, each of the two was tried at
\* most once, no lookup was issued, and nothing was synthesized or printed.
C6_StorageUnavailable ==
    raised = "StorageUnavailable" =>
        /\ pc = "failed"
        /\ exitCode # 0 /\ exitCode # -1
        /\ stdout = <<>>
        /\ out = <<>>
        /\ Cardinality(CallsOf("connect")) <= 1
        /\ Cardinality(CallsOf("makedirs")) <= 1
        /\ CallsOf("execute") = {}

\* the directory was made and then the database could not be opened
C6_Witness ==
    /\ raised = "StorageUnavailable"
    /\ madeDir
    /\ calls = << <<"makedirs">>, <<"connect", DB_PATH>> >>

\* C7: when a lookup raised, the process has failed with a non-zero status,
\* the lookup that raised is the last one issued, and nothing was
\* synthesized or printed, whatever evidence earlier branches gathered.
C7_LookupFailure ==
    raised = "QueryExecutionFailure" =>
        /\ pc = "failed"
        /\ exitCode # 0 /\ exitCode # -1
        /\ Cardinality(CallsOf("execute")) = Len(fetched) + 1
        /\ calls[Len(calls)][1] = "execute"
        /\ Len(answers) = Len(fetched)
        /\ out = <<>>
        /\ stdout = <<>>

\* the third lookup raised after two branches had gathered evidence
C7_Witness ==
    /\ raised = "QueryExecutionFailure"
    /\ Len(answers) = 2
    /\ answers[1][3] # Sentinel
    /\ answers[2][3] # Sentinel

\* C8: an invocation that repeats a successful one on the same input and
\* the same database, and gets the same rows in the same order from each
\* lookup, prints the same output.
C8_Idempotence ==
    (/\ prev # <<>>
     /\ pc = "done"
     /\ input = prev[1].input
     /\ db = prev[1].db
     /\ fetched = prev[1].fetched) => stdout = prev[1].stdout

\* a repeated invocation got the same rows, several of them, from each
\* lookup and printed what the first had printed
C8_Witness ==
    /\ prev # <<>>
    /\ pc = "done"
    /\ fetched = prev[1].fetched
    /\ Len(fetched[1]) >= 2
    /\ stdout = prev[1].stdout
    /\ stdout # <<>>

C10_Lookups ==
    pc = "done" =>
        /\ Cardinality(CallsOf("connect")) = 1
        /\ Cardinality(CallsOf("execute")) = 3
        /\ Len(fetched) = 3
        /\ Len(answers) = 3
        /\ \A k \in 1..3 :
            LET call == calls[Len(calls) - 3 + k]
            IN /\ calls[Len(calls) - 3][1] = "connect"
               /\ call[1] = "execute"
               /\ call[3] = 5
               /\ Len(call[2]) >= 2
               /\ call[2][1] = "%"
               /\ call[2][Len(call[2])] = "%"
               /\ IsStripOf(SubSeq(call[2], 2, Len(call[2]) - 1), input)
               /\ call[2] # <<"%">> \o answers[k][2] \o <<"%">>
               /\ answers[k][1] = Labels[k]
               /\ Len(fetched[k]) <= 5

\* the limit cut six matching records down to five, for an input that
\* stripping changed
C10_Witness ==
    /\ pc = "done"
    /\ db = 6
    /\ query # input
    /\ Len(fetched[1]) = 5

====
